---- MODULE Spec2Model ----
(***************************************************************************)
(* Model of dataset/create_training_dataset.py (lapsintra/htt-ml): the     *)
(* main() loop that skims every process of every source into per-fold      *)
(* output units and merges them with hadd.                                  *)
(*                                                                          *)
(* Strings the program builds (file names, selection expressions) are       *)
(* sequences of one-character strings, so that formatting, str.replace and  *)
(* path collisions are computed and not assumed.  All output files live in  *)
(* the same directory config["output_path"], so an output path is modelled  *)
(* by its file name.  An input path os.path.join(basepath, filename) is the *)
(* record [dir, proc, file].                                                *)
(***************************************************************************)
EXTENDS Integers, Sequences, FiniteSets, TLC

\* ------------------------------------------------------------------ bounds
MaxProcs == 2
MaxFriends == 2
MaxRows == 2

\* ------------------------------------------------------- program constants
NumFolds == 2
Sentinel == -999
FloatPrecision == 16777216

\* ----------------------------------------------------------------- strings
ProcNames == << <<"P">>, <<"Q">>, <<"R">>, <<"S">> >>

AliasSet == { <<"n","n">>, <<"d","n","n">> }

\* an alias that is also the first word of the unit file names
MergeAlias == <<"m","e","r","g","e">>

OutputFilenames == { <<"P",".","r","o","o","t">> }

CutStrings == { <<"x",">","0">>, <<"d","n","n",".","x",">","0">> }

WeightStrings == { <<"x">>, <<"2","*","x">> }

EVENT_BRANCH == <<"e","v","e","n","t">>

Digits == <<"0","1","2","3","4","5","6","7","8","9">>

\* "{}".format(n) for a small non-negative integer
FormatInt(n) == <<Digits[n + 1]>>

\* str.replace(old, new): leftmost, non-overlapping occurrences; old is
\* never empty here (it ends with ".")
RECURSIVE Replace(_, _, _)
Replace(s, old, new) ==
    IF Len(s) < Len(old) THEN s
    ELSE IF SubSeq(s, 1, Len(old)) = old
         THEN new \o Replace(SubSeq(s, Len(old) + 1, Len(s)), old, new)
         ELSE <<s[1]>> \o Replace(Tail(s), old, new)

\* "merge_fold{}_{}.root" / "{}_merge_fold{}_{}.root"
UnitFileName(aliases, i, fold, process) ==
    IF i = 0
    THEN <<"m","e","r","g","e","_","f","o","l","d">> \o FormatInt(fold)
         \o <<"_">> \o process \o <<".","r","o","o","t">>
    ELSE aliases[i] \o <<"_","m","e","r","g","e","_","f","o","l","d">>
         \o FormatInt(fold) \o <<"_">> \o process \o <<".","r","o","o","t">>

\* "fold{}_{}" / "{}_fold{}_{}"
MergedFileName(aliases, i, fold, output_filename) ==
    IF i = 0
    THEN <<"f","o","l","d">> \o FormatInt(fold) \o <<"_">> \o output_filename
    ELSE aliases[i] \o <<"_","f","o","l","d">> \o FormatInt(fold)
         \o <<"_">> \o output_filename

\* "({EVENT_BRANCH}%2=={NUM_FOLD})&&({CUT_STRING})"
FoldPrefix(fold) ==
    <<"(">> \o EVENT_BRANCH \o <<"%","2","=","=">> \o FormatInt(fold)
    \o <<")","&","&","(">>

FormatCut(fold, cut) == FoldPrefix(fold) \o cut \o <<")">>

\* the selection expression handed to CopyTree for target i
SkimCutString(aliases, i, fold, cut) ==
    IF i # 0
    THEN Replace(FormatCut(fold, cut), aliases[i] \o <<".">>, <<>>)
    ELSE FormatCut(fold, cut)

\* ------------------------------------------------------------- input data
\* rows of the tree: the integer event number and one data column x
RowSet == { [event |-> 1, x |-> 16777217], [event |-> -1, x |-> 3],
            [event |-> 1, x |-> 0] }

RECURSIVE SeqsUpTo(_, _)
SeqsUpTo(S, n) ==
    IF n = 0 THEN { <<>> }
    ELSE LET shorter == SeqsUpTo(S, n - 1)
         IN  shorter \cup { Append(s, e) : s \in { t \in shorter : Len(t) = n - 1 }, e \in S }

\* every process lists two files; the second file's content is fixed
FileNames == <<"a", "b">>
NumFiles == Len(FileNames)
Rows2 == << [event |-> 0, x |-> 3], [event |-> 1, x |-> 3] >>

VARIABLES
    config,        \* the loaded YAML config
    rows1,         \* rows of the first file of each process (same in every source)
    missing,       \* source directories in which the second file does not exist
    pc,            \* position in main()
    err,           \* the exception that ended the run, "none" otherwise
    num_fold,      \* loop variable of line 34
    process,       \* loop variable of line 37, as index into config.processes
    i,             \* loop variable of line 47 / 133
    created_files, \* list of lists of output paths (line 36)
    chains_bound,  \* whether the name `chains` is bound (line 48)
    chains,        \* the TChains of line 48
    cut_string,    \* the selection of line 83-89
    chain_skimmed, \* the tree copied by CopyTree (line 92)
    training_weight, \* the one-element 'f' array of line 114
    i_event,       \* loop variable of line 118
    fs,            \* the files under output_path
    open,          \* output paths with an open TFile
    log            \* writes and merges performed, in order

vars == << config, rows1, missing, pc, err, num_fold, process, i,
           created_files, chains_bound, chains, cut_string, chain_skimmed,
           training_weight, i_event, fs, open, log >>

NumProcs == Len(config.processes)
NumSources == Len(config.friend_aliases) + 1
ProcName(p) == config.processes[p]

\* os.path.exists(path) for an input path
PathExists(path) == ~(path.file = NumFiles /\ path.dir \in missing)

FileRows(path) ==
    IF ~PathExists(path) THEN <<>>
    ELSE IF path.file = 1 THEN rows1 ELSE Rows2

\* the entries a TChain sees: its files in order, a file that cannot be
\* opened contributing none
RECURSIVE ChainRows(_)
ChainRows(files) ==
    IF files = <<>> THEN <<>>
    ELSE FileRows(Head(files)) \o ChainRows(Tail(files))

\* lines 48-56: one chain per basepath holding every file of the process,
\* whether or not it exists
NewChains(p) ==
    [b \in 1..NumSources |->
        [files |-> [k \in 1..NumFiles |-> [dir |-> b - 1, proc |-> p, file |-> k]],
         friends |-> <<>>]]

RECURSIVE FriendsFrom(_, _)
\* lines 77-80: the friends added to chains[t], for j = from, from+1, ...
FriendsFrom(t, from) ==
    IF from >= NumSources THEN <<>>
    ELSE (IF t # from
          THEN << [chain |-> from,
                   alias |-> IF from # 0 THEN config.friend_aliases[from] ELSE <<>>] >>
          ELSE <<>>)
         \o FriendsFrom(t, from + 1)

\* a bug that binds the target chain to itself as well
AddFriends_withSelf(t) ==
    [j \in 1..NumSources |->
        [chain |-> j - 1,
         alias |-> IF j - 1 # 0 THEN config.friend_aliases[j - 1] ELSE <<>>]]

AddFriends(t) == FriendsFrom(t, 0)

\* C-style remainder of TTreeFormula's % on integers (truncating)
CMod(a, b) == IF a >= 0 THEN a % b ELSE -((-a) % b)

\* the source whose column x the cut expression `cut` reads on target t with
\* the friends bound in `friends`, -1 if the expression does not compile
CutSource(cut, t, friends) ==
    IF cut = <<"x",">","0">> THEN t
    ELSE LET hits == { k \in 1..Len(friends) :
                         /\ friends[k].alias # <<>>
                         /\ cut = friends[k].alias \o <<".","x",">","0">> }
         IN  IF hits = {} THEN -1
             ELSE friends[CHOOSE k \in hits : \A m \in hits : k <= m].chain

\* the fold digit and cut of a selection "(event%2==D)&&(cut)"; ok is FALSE
\* when the text has another shape
ParseSelection(sel) ==
    LET n == Len(FoldPrefix(0))
    IN  IF /\ Len(sel) > n
           /\ sel[Len(sel)] = ")"
           /\ \E d \in 0..1 : SubSeq(sel, 1, n) = FoldPrefix(d)
        THEN [ok |-> TRUE,
              fold |-> CHOOSE d \in 0..1 : SubSeq(sel, 1, n) = FoldPrefix(d),
              cut |-> SubSeq(sel, n + 1, Len(sel) - 1)]
        ELSE [ok |-> FALSE, fold |-> 0, cut |-> <<>>]

RECURSIVE SelectRows(_, _, _, _)
\* rows k.. of `own` whose event number is in fold d and whose x, read from
\* `other` at the same entry, is positive
SelectRows(own, other, d, k) ==
    IF k > Len(own) THEN <<>>
    ELSE (IF /\ CMod(own[k].event, 2) = d
             /\ k <= Len(other)
             /\ other[k].x > 0
          THEN <<own[k]>> ELSE <<>>)
         \o SelectRows(own, other, d, k + 1)

NullTree == [null |-> TRUE, rows |-> <<>>, weights |-> <<>>, name |-> <<>>]

\* chains[t].CopyTree(sel): a null tree when the selection does not compile
CopyTree(t, sel) ==
    LET parsed == ParseSelection(sel)
        src == CutSource(parsed.cut, t, chains[t + 1].friends)
    IN  IF ~parsed.ok \/ src = -1 THEN NullTree
        ELSE [null |-> FALSE,
              rows |-> SelectRows(ChainRows(chains[t + 1].files),
                                  ChainRows(chains[src + 1].files),
                                  parsed.fold, 1),
              weights |-> <<>>,
              name |-> <<>>]

\* TTreeFormula.EvalInstance() of the weight string on one row
EvalInstance(weight_string, row) ==
    IF weight_string = <<"x">> THEN row.x ELSE 2 * row.x

RECURSIVE Spacing(_)
\* distance between neighbouring single-precision values around a >= 0
Spacing(a) == IF a < FloatPrecision THEN 1 ELSE 2 * Spacing(a \div 2)

\* storing a double into array('f'): round to nearest single, ties to even
ToFloat32(v) ==
    LET a == IF v < 0 THEN -v ELSE v
        s == Spacing(a)
        q == a \div s
        r == a % s
        up == IF 2 * r > s THEN q + 1
              ELSE IF 2 * r < s THEN q
              ELSE IF q % 2 = 0 THEN q ELSE q + 1
    IN  (IF v < 0 THEN -1 ELSE 1) * up * s

\* a bug that fills the branch before the buffer is set
FilledWeight_stale(weight_string, row, buffer) == buffer

\* lines 119-121 for one entry: evaluate, store in the buffer, fill the branch
FilledWeight(weight_string, row, buffer) ==
    ToFloat32(EvalInstance(weight_string, row))

CurrentPath == created_files[Len(created_files)][Len(created_files[Len(created_files)])]

\* writing `file` at `path`
PutFile(files, path, file) ==
    [q \in (DOMAIN files) \cup {path} |-> IF q = path THEN file ELSE files[q]]

EmptyFile(writer) ==
    [kind |-> "empty", writer |-> writer, rows |-> <<>>, weights |-> <<>>, name |-> <<>>]

\* line 140
SubCreatedFiles(t) == [k \in 1..Len(created_files) |-> created_files[k][t + 1]]

RECURSIVE ConcatRows(_, _)
\* hadd: the rows of the input files in argument order
ConcatRows(files, inputs) ==
    IF inputs = <<>> THEN <<>>
    ELSE (IF Head(inputs) \in DOMAIN files THEN files[Head(inputs)].rows ELSE <<>>)
         \o ConcatRows(files, Tail(inputs))

\* -------------------------------------------------------------------- Init
Init ==
    /\ \E n \in 0..MaxProcs,
          aliases \in SeqsUpTo(AliasSet, MaxFriends) \cup { <<MergeAlias>> },
          out \in OutputFilenames,
          cut \in CutStrings,
          w \in WeightStrings :
         config = [processes |-> SubSeq(ProcNames, 1, n),
                   friend_aliases |-> aliases,
                   output_filename |-> out,
                   cut_string |-> cut,
                   weight_string |-> w]
    /\ rows1 \in SeqsUpTo(RowSet, MaxRows)
    /\ missing \in { {}, {0} }
    /\ pc = "fold"
    /\ err = "none"
    /\ num_fold = 0
    /\ process = 0
    /\ i = 0
    /\ created_files = <<>>
    /\ chains_bound = FALSE
    /\ chains = <<>>
    /\ cut_string = <<>>
    /\ chain_skimmed = NullTree
    /\ training_weight = Sentinel
    /\ i_event = 0
    /\ fs = << >>
    /\ open = {}
    /\ log = <<>>

\* ----------------------------------------------------------------- actions
\* lines 34-36: head of the fold loop
StartFold ==
    /\ pc = "fold"
    /\ created_files' = <<>>
    /\ process' = IF NumProcs > 0 THEN 1 ELSE 0
    /\ i' = 0
    /\ pc' = IF NumProcs > 0 THEN "process" ELSE "merge"
    /\ UNCHANGED << config, rows1, missing, err, num_fold, chains_bound, chains,
                    cut_string, chain_skimmed, training_weight, i_event, fs,
                    open, log >>

\* lines 37-46: head of the process loop
StartProcess ==
    /\ pc = "process"
    /\ created_files' = Append(created_files, <<>>)
    /\ i' = 0
    /\ pc' = "build"
    /\ UNCHANGED << config, rows1, missing, err, num_fold, process, chains_bound,
                    chains, cut_string, chain_skimmed, training_weight, i_event,
                    fs, open, log >>

\* lines 47-66: build the chains of the process and name the output file
BuildChains ==
    /\ pc = "build"
    /\ chains' = NewChains(process)
    /\ chains_bound' = TRUE
    /\ created_files' =
         [created_files EXCEPT ![Len(created_files)] =
            Append(@, UnitFileName(config.friend_aliases, i, num_fold, ProcName(process)))]
    /\ pc' = "open"
    /\ UNCHANGED << config, rows1, missing, err, num_fold, process, i, cut_string,
                    chain_skimmed, training_weight, i_event, fs, open, log >>

\* line 67: ROOT.TFile(path, "RECREATE")
OpenFile ==
    /\ pc = "open"
    /\ fs' = PutFile(fs, CurrentPath, EmptyFile(<<"unit", num_fold, process, i>>))
    /\ open' = open \cup {CurrentPath}
    /\ pc' = "check"
    /\ UNCHANGED << config, rows1, missing, err, num_fold, process, i,
                    created_files, chains_bound, chains, cut_string,
                    chain_skimmed, training_weight, i_event, log >>

\* lines 69-75: the base chain must have entries
CheckChain ==
    /\ pc = "check"
    /\ IF ~(Len(ChainRows(chains[1].files)) > 0)
       THEN /\ err' = "EmptyChain"
            /\ pc' = "error"
       ELSE /\ err' = err
            /\ pc' = "friends"
    /\ UNCHANGED << config, rows1, missing, num_fold, process, i, created_files,
                    chains_bound, chains, cut_string, chain_skimmed,
                    training_weight, i_event, fs, open, log >>

\* lines 77-80: bind the other chains as friends of chains[i]
BindFriends ==
    /\ pc = "friends"
    /\ chains' = [chains EXCEPT ![i + 1].friends = @ \o AddFriends(i)]
    /\ pc' = "skim"
    /\ UNCHANGED << config, rows1, missing, err, num_fold, process, i,
                    created_files, chains_bound, cut_string, chain_skimmed,
                    training_weight, i_event, fs, open, log >>

\* lines 82-99: compose the selection and copy the passing entries
Skim ==
    /\ pc = "skim"
    /\ cut_string' = SkimCutString(config.friend_aliases, i, num_fold, config.cut_string)
    /\ chain_skimmed' = CopyTree(i, cut_string')
    /\ IF chain_skimmed'.null
       THEN /\ err' = "NullTree"
            /\ pc' = "error"
       ELSE IF ~(Len(chain_skimmed'.rows) > 0)
       THEN /\ err' = "EmptySelection"
            /\ pc' = "error"
       ELSE /\ err' = err
            /\ pc' = "reset"
    /\ UNCHANGED << config, rows1, missing, num_fold, process, i, created_files,
                    chains_bound, chains, training_weight, i_event, fs, open, log >>

\* lines 101-105: clear the friends of chains[i], reset every chain
ClearReset ==
    /\ pc = "reset"
    /\ chains' = [b \in 1..Len(chains) |-> [files |-> <<>>, friends |-> <<>>]]
    /\ pc' = IF i = 0 THEN "weight" ELSE "write"
    /\ UNCHANGED << config, rows1, missing, err, num_fold, process, i,
                    created_files, chains_bound, cut_string, chain_skimmed,
                    training_weight, i_event, fs, open, log >>

\* lines 107-117: the formula, the buffer and the new branch
StartWeights ==
    /\ pc = "weight"
    /\ training_weight' = Sentinel
    /\ chain_skimmed' = [chain_skimmed EXCEPT !.weights = <<>>]
    /\ i_event' = 0
    /\ pc' = "fill"
    /\ UNCHANGED << config, rows1, missing, err, num_fold, process, i,
                    created_files, chains_bound, chains, cut_string, fs, open, log >>

\* lines 118-121: one pass of the fill loop, or its end
FillWeight ==
    /\ pc = "fill"
    /\ IF i_event < Len(chain_skimmed.rows)
       THEN /\ training_weight' =
                 FilledWeight(config.weight_string,
                              chain_skimmed.rows[i_event + 1], training_weight)
            /\ chain_skimmed' =
                 [chain_skimmed EXCEPT !.weights = Append(@, training_weight')]
            /\ i_event' = i_event + 1
            /\ pc' = pc
       ELSE /\ UNCHANGED << training_weight, chain_skimmed, i_event >>
            /\ pc' = "write"
    /\ UNCHANGED << config, rows1, missing, err, num_fold, process, i,
                    created_files, chains_bound, chains, cut_string, fs, open, log >>

\* lines 123-127: name the tree, write it, close the file; then the loop
\* heads of lines 47 and 37
WriteClose ==
    /\ pc = "write"
    /\ chain_skimmed' = [chain_skimmed EXCEPT !.name = ProcName(process)]
    /\ fs' = PutFile(fs, CurrentPath,
                     [kind |-> "unit",
                      writer |-> <<"unit", num_fold, process, i>>,
                      rows |-> chain_skimmed.rows,
                      weights |-> chain_skimmed.weights,
                      name |-> ProcName(process)])  \* the class label, here the process name
    /\ open' = open \ {CurrentPath}
    /\ log' = Append(log, [op |-> "write", fold |-> num_fold, proc |-> process,
                           src |-> i, path |-> CurrentPath, inputs |-> <<>>])
    /\ IF i + 1 < NumSources
       THEN /\ i' = i + 1
            /\ process' = process
            /\ pc' = "build"
       ELSE IF process < NumProcs
       THEN /\ i' = i
            /\ process' = process + 1
            /\ pc' = "process"
       ELSE /\ i' = 0
            /\ process' = process
            /\ pc' = "merge"
    /\ UNCHANGED << config, rows1, missing, err, num_fold, created_files,
                    chains_bound, chains, cut_string, training_weight, i_event >>

\* lines 130-143: one pass of the hadd loop over enumerate(chains), then the
\* loop head of line 34
Merge ==
    /\ pc = "merge"
    /\ IF ~chains_bound
       THEN /\ err' = "NameError"
            /\ pc' = "error"
            /\ UNCHANGED << fs, log, i, num_fold >>
       ELSE LET output_file == MergedFileName(config.friend_aliases, i, num_fold,
                                              config.output_filename)
                sub_created_files == SubCreatedFiles(i)
                recreated == PutFile(fs, output_file,
                                     EmptyFile(<<"merged", num_fold, 0, i>>))
            IN  /\ fs' = PutFile(fs, output_file,
                                 [kind |-> "merged",
                                  writer |-> <<"merged", num_fold, 0, i>>,
                                  rows |-> ConcatRows(recreated, sub_created_files),
                                  weights |-> <<>>,
                                  name |-> <<>>])
                /\ log' = Append(log, [op |-> "merge", fold |-> num_fold, proc |-> 0,
                                       src |-> i, path |-> output_file,
                                       inputs |-> sub_created_files])
                /\ err' = err
                /\ IF i + 1 < Len(chains)
                   THEN /\ i' = i + 1
                        /\ num_fold' = num_fold
                        /\ pc' = pc
                   ELSE IF num_fold + 1 < NumFolds
                   THEN /\ i' = i
                        /\ num_fold' = num_fold + 1
                        /\ pc' = "fold"
                   ELSE /\ i' = i
                        /\ num_fold' = num_fold
                        /\ pc' = "done"
    /\ UNCHANGED << config, rows1, missing, process, created_files, chains_bound,
                    chains, cut_string, chain_skimmed, training_weight, i_event,
                    open >>

\* -------------------------------------------------------------- properties
\* the rows source t holds for process p
SourceRows(t, p) == ChainRows(NewChains(p)[t + 1].files)

RECURSIVE FoldRows(_, _, _)
\* rows k.. whose event number modulo 2 is f and which pass the cut x > 0
FoldRows(rows, f, k) ==
    IF k > Len(rows) THEN <<>>
    ELSE (IF rows[k].event % 2 = f /\ rows[k].x > 0 THEN <<rows[k]>> ELSE <<>>)
         \o FoldRows(rows, f, k + 1)

RECURSIVE PassingRows(_, _)
PassingRows(rows, k) ==
    IF k > Len(rows) THEN <<>>
    ELSE (IF rows[k].x > 0 THEN <<rows[k]>> ELSE <<>>) \o PassingRows(rows, k + 1)

UnitRows(t, f, p) ==
    fs[UnitFileName(config.friend_aliases, t, f, ProcName(p))].rows

\* C1: after a completed run, for every process, source and fold the output
\* unit holds exactly the rows with event mod 2 = fold that pass the cut, so
\* the two folds together hold as many rows as pass the cut.
C1_FoldPartition ==
    pc = "done" =>
        \A p \in 1..NumProcs, t \in 0..(NumSources - 1) :
            /\ \A f \in 0..1 :
                 /\ UnitFileName(config.friend_aliases, t, f, ProcName(p)) \in DOMAIN fs
                 /\ UnitRows(t, f, p) = FoldRows(SourceRows(t, p), f, 1)
            /\ Len(UnitRows(t, 0, p)) + Len(UnitRows(t, 1, p))
                 = Len(PassingRows(SourceRows(t, p), 1))

BaseUnits == { q \in DOMAIN fs : fs[q].kind = "unit" /\ fs[q].writer[4] = 0 }

\* C2 as stated: every row of a persisted base output unit carries exactly the
\* value of the weight string on that row, and never the sentinel.
C2_ExactWeights ==
    \A q \in BaseUnits :
        /\ Len(fs[q].weights) = Len(fs[q].rows)
        /\ \A k \in 1..Len(fs[q].rows) :
             /\ fs[q].weights[k] = EvalInstance(config.weight_string, fs[q].rows[k])
             /\ fs[q].weights[k] # Sentinel

\* C2 (amended): every row of a persisted base output unit carries the
\* single-precision rounding of the weight string's value on that same row,
\* one value per selected row, in row order; and while the branch is being
\* filled, the values filled so far are those of the first i_event rows.
C2_Float32Weights ==
    /\ \A q \in BaseUnits :
         /\ Len(fs[q].weights) = Len(fs[q].rows)
         /\ Len(fs[q].rows) > 0
         /\ \A k \in 1..Len(fs[q].rows) :
              fs[q].weights[k]
                = ToFloat32(EvalInstance(config.weight_string, fs[q].rows[k]))
    /\ pc = "fill" =>
         /\ Len(chain_skimmed.weights) = i_event
         /\ \A k \in 1..i_event :
              chain_skimmed.weights[k]
                = ToFloat32(EvalInstance(config.weight_string, chain_skimmed.rows[k]))

C2_Witness ==
    \E q \in BaseUnits :
        /\ Len(fs[q].rows) >= 2
        /\ \E k \in 1..Len(fs[q].rows) :
             fs[q].weights[k] # EvalInstance(config.weight_string, fs[q].rows[k])

\* C3: when the merge tool is about to run for fold f, the inputs of every
\* source index still to be merged are the output units written for that
\* source in that fold, one per process in order, none from another fold or
\* source, none missing.
C3_MergeInputs ==
    (pc = "merge" /\ chains_bound) =>
        \A t \in i..(NumSources - 1) :
            /\ Len(SubCreatedFiles(t)) = NumProcs
            /\ \A k \in 1..NumProcs :
                 /\ SubCreatedFiles(t)[k] \in DOMAIN fs
                 /\ fs[SubCreatedFiles(t)[k]].kind = "unit"
                 /\ fs[SubCreatedFiles(t)[k]].writer = <<"unit", num_fold, k, t>>

\* C4: when the run raises for an empty chain or an empty selection, the
\* raising iteration has left no file at its output path.
C4_NoUnitOnEmpty ==
    err \in {"EmptyChain", "EmptySelection"} =>
        \/ CurrentPath \notin DOMAIN fs
        \/ fs[CurrentPath].writer # <<"unit", num_fold, process, i>>

\* C5: a path that does not exist is never added to a chain, and when a
\* listed file is missing nothing is selected, written or merged.
C5_FailFast ==
    /\ \A b \in 1..Len(chains) : \A k \in 1..Len(chains[b].files) :
         PathExists(chains[b].files[k])
    /\ (missing # {} /\ NumProcs > 0) =>
         /\ log = <<>>
         /\ pc \notin {"skim", "reset", "weight", "fill", "write", "merge", "done"}

\* the n-th (from 0) operation of a full run: folds in order; in a fold the
\* writes by process then source, then one merge per source
ExpectedOp(n) ==
    LET writes == NumProcs * NumSources
        block == writes + NumSources
        f == n \div block
        r == n % block
    IN  IF r < writes
        THEN <<"write", f, (r \div NumSources) + 1, r % NumSources>>
        ELSE <<"merge", f, 0, r - writes>>

LogOp(n) == <<log[n].op, log[n].fold, log[n].proc, log[n].src>>

\* C6: writes and merges happen in fold, process, source order with the
\* merges of a fold, one per source, after its writes; and a run that no
\* empty chain or selection aborts performs all of them, whatever the number
\* of processes.
C6_Order ==
    /\ \A n \in 1..Len(log) : LogOp(n) = ExpectedOp(n - 1)
    /\ (pc \in {"done", "error"} /\ err \notin {"EmptyChain", "EmptySelection", "NullTree"}) =>
         Len(log) = NumFolds * (NumProcs * NumSources + NumSources)

\* C7: outside the body of an iteration, the terminal state after an error
\* included, no output file is open.
C7_FilesClosed ==
    pc \in {"fold", "process", "build", "merge", "done", "error"} => open = {}

Delimiters == {"(", ")", "%", "=", "&", ">", "<", "*"}

RECURSIVE StripQualifier(_, _, _)
\* s without the qualifier "alias." wherever it starts a column reference
StripQualifier(s, alias, atStart) ==
    IF s = <<>> THEN <<>>
    ELSE IF /\ atStart
            /\ Len(s) > Len(alias)
            /\ SubSeq(s, 1, Len(alias) + 1) = alias \o <<".">>
         THEN StripQualifier(SubSeq(s, Len(alias) + 2, Len(s)), alias, FALSE)
         ELSE <<s[1]>> \o StripQualifier(Tail(s), alias, s[1] \in Delimiters)

\* C8: the selection evaluated for a friend target is the fold condition and
\* the cut with only the target's own alias qualifier removed; for the base
\* target it is the fold condition and the unmodified cut.
C8_OwnAliasOnly ==
    (pc = "reset" \/ (pc = "error" /\ err \in {"NullTree", "EmptySelection"})) =>
        cut_string =
            IF i = 0 THEN FormatCut(num_fold, config.cut_string)
            ELSE FormatCut(num_fold,
                           StripQualifier(config.cut_string,
                                          config.friend_aliases[i], TRUE))

\* C9: when the selection is evaluated for target i, chain i has exactly the
\* other sources as friends, each once, the base without alias and friend j
\* under friend_aliases[j]; before the friends are bound no chain has any;
\* after the selection no chain has friends and every chain is reset.
C9_FriendBindings ==
    /\ pc = "skim" =>
         /\ Len(chains[i + 1].friends) = NumSources - 1
         /\ { <<chains[i + 1].friends[k].chain, chains[i + 1].friends[k].alias>> :
                k \in 1..Len(chains[i + 1].friends) }
              = { <<j, IF j = 0 THEN <<>> ELSE config.friend_aliases[j]>> :
                    j \in (0..(NumSources - 1)) \ {i} }
         /\ \A b \in 1..Len(chains) : b # i + 1 => chains[b].friends = <<>>
    /\ pc \in {"open", "check", "friends"} =>
         \A b \in 1..Len(chains) : chains[b].friends = <<>>
    /\ pc \in {"weight", "fill", "write", "build", "process", "merge", "fold", "done"} =>
         \A b \in 1..Len(chains) :
             chains[b].friends = <<>> /\ chains[b].files = <<>>

C9_Witness ==
    /\ pc = "skim"
    /\ i = 1
    /\ NumSources = 3
    /\ Len(chains[2].friends) = 2
    /\ Len(log) > 0

\* C10: no output path is written twice in a run.
C10_NoOverwrite ==
    \A a, b \in 1..Len(log) : a # b => log[a].path # log[b].path

Next ==
    \/ StartFold
    \/ StartProcess
    \/ BuildChains
    \/ OpenFile
    \/ CheckChain
    \/ BindFriends
    \/ Skim
    \/ ClearReset
    \/ StartWeights
    \/ FillWeight
    \/ WriteClose
    \/ Merge

Spec == Init /\ [][Next]_vars

====
